---------------------------- MODULE Spec2Model ----------------------------
(***************************************************************************)
(* GraKeL: the Weisfeiler-Lehman subtree kernel (kernels/subtree_wl.py)    *)
(* and the fit / transform protocol of the kernel engine it plugs into.    *)
(*                                                                         *)
(* Three specifications share the variables:                               *)
(*   SpecScore  one call of pairwise_operation on a drawn pair of          *)
(*              inverted label dictionaries;                               *)
(*   SpecParse  one call of parse_input on a drawn input;                  *)
(*   Spec       an engine instance receiving fit, transform and            *)
(*              fit_transform calls in any order.                          *)
(* The engine's base class (grakel.kernels.kernel) and grakel.tools        *)
(* inv_dict are not part of the sources at hand; they are modelled from    *)
(* the design document, with normalisation switched off (the rescaling     *)
(* by square roots is real-valued and is left out).                        *)
(***************************************************************************)
EXTENDS Integers, Sequences, FiniteSets, TLC

VARIABLES
    X,        \* self.X: the cached summaries of the last successful fit
    prevX,    \* history: self.X as it was when the last call started
    everFit,  \* history: some fit on this engine has succeeded
    op,       \* name of the last call
    arg,      \* argument of the last call
    ret,      \* outcome of the last call (value returned or exception)
    warned    \* warnings emitted by the last call, in order

vars == <<X, prevX, everFit, op, arg, ret, warned>>

---------------------------------------------------------------------------
(* Bounds of the model. *)

\* node identifiers are 0 .. NumNodes-1
NumNodes == 3
\* an input of parse_input holds at most MaxLen elements
MaxLen == 3
\* a positional element holds at most MaxItems items
MaxItems == 4
\* an input of fit / transform holds at most MaxBatch elements
MaxBatch == 2

Nodes == 0 .. (NumNodes - 1)
Labels == {"x", "y", "z"}

---------------------------------------------------------------------------
(* Node-label dictionaries and their inversion. *)

EmptyMap == [n \in {} |-> "x"]

\* every dict node -> label over the nodes
LabelMaps == UNION {[S -> Labels] : S \in SUBSET Nodes}

\* the nodes of d carrying label l, in ascending order of insertion
RECURSIVE bucket(_, _, _)
bucket(d, l, n) ==
    IF n >= NumNodes THEN <<>>
    ELSE IF n \in DOMAIN d /\ d[n] = l THEN <<n>> \o bucket(d, l, n + 1)
    ELSE bucket(d, l, n + 1)

\* grakel.tools.inv_dict: label -> list of the keys of d carrying it
inv_dict(d) ==
    [l \in {d[n] : n \in DOMAIN d} |-> bucket(d, l, 0)]

Summaries == {inv_dict(d) : d \in LabelMaps}

---------------------------------------------------------------------------
(* subtree_wl.pairwise_operation *)

\* sum(len(ls[x])*len(lb[x]) for x in ls if x in lb), over the keys left
RECURSIVE sum_over(_, _, _)
sum_over(ls, lb, keys) ==
    IF keys = {} THEN 0
    ELSE LET x == CHOOSE k \in keys : TRUE
         IN  (IF x \in DOMAIN lb THEN Len(ls[x]) * Len(lb[x]) ELSE 0)
             + sum_over(ls, lb, keys \ {x})

pairwise_operation_square(lx, ly) ==
    IF Cardinality(DOMAIN lx) < Cardinality(DOMAIN ly)
    THEN sum_over(lx, ly, DOMAIN lx)
    ELSE sum_over(ly, ly, DOMAIN ly)

pairwise_operation_no_swap(lx, ly) ==
    IF Cardinality(DOMAIN lx) < Cardinality(DOMAIN ly)
    THEN sum_over(lx, ly, DOMAIN lx)
    ELSE sum_over(lx, lx, DOMAIN lx)

\* the sum with len(ls[x]) + len(lb[x]) as its term
RECURSIVE sum_over_plus(_, _, _)
sum_over_plus(ls, lb, keys) ==
    IF keys = {} THEN 0
    ELSE LET x == CHOOSE k \in keys : TRUE
         IN  (IF x \in DOMAIN lb THEN Len(ls[x]) + Len(lb[x]) ELSE 0)
             + sum_over_plus(ls, lb, keys \ {x})

pairwise_operation_plus(lx, ly) ==
    IF Cardinality(DOMAIN lx) < Cardinality(DOMAIN ly)
    THEN sum_over_plus(lx, ly, DOMAIN lx)
    ELSE sum_over_plus(ly, lx, DOMAIN ly)

pairwise_operation(lx, ly) ==
    IF Cardinality(DOMAIN lx) < Cardinality(DOMAIN ly)
    THEN sum_over(lx, ly, DOMAIN lx)
    ELSE sum_over(ly, lx, DOMAIN ly)

---------------------------------------------------------------------------
(* Outcomes of a call. *)

NoValue == <<>>

Message(text, cites) == [text |-> text, cites |-> cites]
NoMessage == Message("", {})

Return(v) == [exc |-> "none", msg |-> NoMessage, value |-> v]
Raise(e, m) == [exc |-> e, msg |-> m, value |-> NoValue]

NotCalled == Raise("not called", NoMessage)

Returned(r) == r.exc = "none"

---------------------------------------------------------------------------
(* The fitted state of an engine instance. *)

\* no fit has succeeded: there is no cached sequence
Unfitted == [fitted |-> FALSE, X |-> <<>>, diag |-> <<>>]

\* the cached summaries of a fit and the self-similarity of each
Fitted(Xp) ==
    [fitted |-> TRUE,
     X |-> Xp,
     diag |-> [k \in DOMAIN Xp |-> pairwise_operation(Xp[k], Xp[k])]]

---------------------------------------------------------------------------
(* Specification of one pairwise_operation call. *)

InitScore ==
    /\ X = Unfitted /\ prevX = Unfitted /\ everFit = FALSE
    /\ op = "start"
    /\ arg \in Summaries \X Summaries
    /\ ret = NotCalled
    /\ warned = <<>>

Score ==
    /\ op = "start"
    /\ op' = "pairwise_operation"
    /\ ret' = Return(pairwise_operation(arg[1], arg[2]))
    /\ UNCHANGED <<X, prevX, everFit, arg, warned>>

NextScore == Score

SpecScore == InitScore /\ [][NextScore]_vars

---------------------------------------------------------------------------
(* Claims about pairwise_operation, under SpecScore. *)

\* the number of triples (label, position in a's bucket, position in b's
\* bucket) over the labels that are keys of both: the sum of
\* |a[label]| * |b[label]| over keys(a) \cap keys(b)
CommonLabelSum(a, b) ==
    Cardinality(UNION {{<<l, i, j>> : i \in DOMAIN a[l], j \in DOMAIN b[l]}
                       : l \in DOMAIN a \cap DOMAIN b})

ExampleXY == [x |-> <<0, 1>>, y |-> <<2>>]
ExampleXZ == [x |-> <<0>>, z |-> <<1>>]

\* C1: pairwise_operation(lx, ly) returns the sum, over the labels that are
\* keys of both dictionaries, of |lx[label]| * |ly[label]|; it returns 0 when
\* the key sets are disjoint and 2 for {'x':[0,1],'y':[2]} against
\* {'x':[0],'z':[1]}.
C1_ScoreIsCommonLabelSum ==
    op = "pairwise_operation" =>
        /\ ret = Return(CommonLabelSum(arg[1], arg[2]))
        /\ (DOMAIN arg[1] \cap DOMAIN arg[2] = {} => ret.value = 0)
        /\ (arg = <<ExampleXY, ExampleXZ>> => ret.value = 2)

C1_Witness ==
    /\ op = "pairwise_operation"
    /\ arg = <<ExampleXY, ExampleXZ>>
    /\ ret = Return(2)

\* C2: pairwise_operation is commutative: the value returned for (lx, ly) is
\* the value of the call with the arguments exchanged, whether the two
\* dictionaries have the same number of keys or one has fewer.
C2_ScoreCommutes ==
    op = "pairwise_operation" =>
        ret.value = pairwise_operation(arg[2], arg[1])

\* the tie of the smaller/larger selection, on two dictionaries that differ
\* in their self-similarity and share a label
C2_Witness ==
    /\ op = "pairwise_operation"
    /\ Cardinality(DOMAIN arg[1]) = Cardinality(DOMAIN arg[2])
    /\ CommonLabelSum(arg[1], arg[1]) # CommonLabelSum(arg[2], arg[2])
    /\ ret.value > 0

\* the sum, over the labels of a, of the square of the bucket's length
RECURSIVE SquareSum(_, _)
SquareSum(a, labels) ==
    IF labels = {} THEN 0
    ELSE LET l == CHOOSE k \in labels : TRUE
         IN  Len(a[l]) * Len(a[l]) + SquareSum(a, labels \ {l})

\* one bucket, which then holds every node of the graph
SingleBucket(a) == Cardinality(DOMAIN a) = 1

\* the number of nodes of the graph of summary a
NodeCount(a) == Cardinality(UNION {{a[l][i] : i \in DOMAIN a[l]} : l \in DOMAIN a})

\* C11: the score of a summary against itself is >= 0 and is the sum over its
\* labels of |a[label]|^2; two single-bucket summaries with the same label
\* score |V1| * |V2|.
C11_SelfSimilarity ==
    op = "pairwise_operation" =>
        /\ arg[1] = arg[2] =>
               /\ ret.value >= 0
               /\ ret.value = SquareSum(arg[1], DOMAIN arg[1])
        /\ (SingleBucket(arg[1]) /\ SingleBucket(arg[2])
                /\ DOMAIN arg[1] = DOMAIN arg[2]) =>
               ret.value = NodeCount(arg[1]) * NodeCount(arg[2])

\* {'x':[0,1],'y':[2]} against itself: 2*2 + 1*1
C11_Witness ==
    /\ op = "pairwise_operation"
    /\ arg = <<ExampleXY, ExampleXY>>
    /\ ret = Return(5)

---------------------------------------------------------------------------
(* Inputs of parse_input. *)

\* an element of the input: a positional iterable of len items whose item
\* x[1], when there is one, is the node-label dict; a Graph object, whose
\* get_labels(purpose="any") gives the dict; or a value that is neither
Tuple(n, d) == [cls |-> "tuple", len |-> n, labels |-> d]
GraphObject(d) == [cls |-> "Graph", len |-> 0, labels |-> d]
Scalar == [cls |-> "int", len |-> 0, labels |-> EmptyMap]

\* an input: an iterable of elements, or a value that is not iterable
Iterable(items) == [iterable |-> TRUE, items |-> items]
NotIterable == [iterable |-> FALSE, items |-> <<>>]

DictXXY == [n \in {0, 1, 2} |-> IF n = 2 THEN "y" ELSE "x"]
DictXZ == [n \in {0, 1} |-> IF n = 0 THEN "x" ELSE "z"]

SeqsUpTo(S, n) == UNION {[1 .. k -> S] : k \in 0 .. n}

ParseDicts == {EmptyMap, DictXXY, DictXZ}

ParseElements ==
    {Tuple(n, EmptyMap) : n \in (0 .. MaxItems) \ {2, 3}}
        \cup {Tuple(n, d) : n \in {2, 3}, d \in ParseDicts}
        \cup {GraphObject(d) : d \in ParseDicts}
        \cup {Scalar}

ParseInputs ==
    {Iterable(items) : items \in SeqsUpTo(ParseElements, MaxLen)}
        \cup {NotIterable}

---------------------------------------------------------------------------
(* subtree_wl.parse_input *)

\* isinstance(x, collections.Iterable)
is_iter(x) == x.cls = "tuple"

\* the lengths an iterable element may have
accepted_len_docstring == {0, 1, 2, 3}

accepted_len == {0, 2, 3}

\* the element is dropped with a warning
skipped_never(x) == FALSE

skipped(x) == x.len = 0

\* the parsed list is refused
refused_never(Xp) == FALSE

refused(Xp) == Len(Xp) = 0

\* Graph.get_labels(purpose="any")
get_labels(x) == x.labels

\* the text of the error raised on an element that is neither
invalid_element_text ==
    "each element of X must be either a graph object or a list with at least a graph like object and node labels dict \n"

\* the outcome of the loop and of the check that follows it: the value
\* returned or the exception raised, with the warnings emitted on the way.
\* i is the position in items (the index enumerate gives is i - 1).
RECURSIVE parse_loop(_, _, _, _)
parse_loop(items, i, Xp, W) ==
    IF i > Len(items)
    THEN [out |-> IF refused(Xp)
                  THEN Raise("ValueError",
                             Message("parsed input is empty", {}))
                  ELSE Return(Xp),
          warned |-> W]
    ELSE LET x == items[i] IN
         IF is_iter(x) /\ x.len \in accepted_len
         THEN IF skipped(x)
              THEN parse_loop(items, i + 1, Xp,
                       Append(W, Message("Ignoring empty element on index: ",
                                         {i - 1})))
              ELSE parse_loop(items, i + 1,
                              Append(Xp, inv_dict(x.labels)), W)
         ELSE IF x.cls = "Graph"
         THEN parse_loop(items, i + 1,
                         Append(Xp, inv_dict(get_labels(x))), W)
         ELSE [out |-> Raise("ValueError", Message(invalid_element_text, {})),
               warned |-> W]

parse_input_rejecting_unlabelled(Xin) ==
    LET r == IF ~Xin.iterable
             THEN [out |-> Raise("ValueError",
                                 Message("input must be an iterable\n", {})),
                   warned |-> <<>>]
             ELSE parse_loop(Xin.items, 1, <<>>, <<>>)
    IN  IF Returned(r.out)
           /\ \E k \in DOMAIN r.out.value : DOMAIN r.out.value[k] = {}
        THEN [out |-> Raise("ValueError",
                            Message("graph has no labelled nodes", {})),
              warned |-> r.warned]
        ELSE r

parse_input(Xin) ==
    IF ~Xin.iterable
    THEN [out |-> Raise("ValueError",
                        Message("input must be an iterable\n", {})),
          warned |-> <<>>]
    ELSE parse_loop(Xin.items, 1, <<>>, <<>>)

---------------------------------------------------------------------------
(* Specification of one parse_input call. *)

InitParse ==
    /\ X = Unfitted /\ prevX = Unfitted /\ everFit = FALSE
    /\ op = "start"
    /\ arg \in ParseInputs
    /\ ret = NotCalled
    /\ warned = <<>>

Parse ==
    /\ op = "start"
    /\ op' = "parse_input"
    /\ ret' = parse_input(arg).out
    /\ warned' = parse_input(arg).warned
    /\ UNCHANGED <<X, prevX, everFit, arg>>

NextParse == Parse

SpecParse == InitParse /\ [][NextParse]_vars

---------------------------------------------------------------------------
(* Claims about parse_input, under SpecParse. *)

\* a length-0 element
EmptyElement(x) == x.cls = "tuple" /\ x.len = 0

\* an element that is not iterable and not a graph object, or iterable with
\* a length outside {0, 2, 3}
Malformed(x) ==
    \/ x.cls \notin {"tuple", "Graph"}
    \/ x.cls = "tuple" /\ x.len \notin {0, 2, 3}

HasMalformed(items) == \E i \in DOMAIN items : Malformed(items[i])

NonEmptyElements(items) == SelectSeq(items, LAMBDA x : ~EmptyElement(x))

\* the positions (from 0) of the length-0 elements, in ascending order
RECURSIVE EmptyIndices(_, _)
EmptyIndices(items, i) ==
    IF i > Len(items) THEN <<>>
    ELSE (IF EmptyElement(items[i]) THEN <<i - 1>> ELSE <<>>)
         \o EmptyIndices(items, i + 1)

\* one summary per non-empty element, in the order of the input
ExpectedSummaries(items) ==
    [k \in DOMAIN NonEmptyElements(items) |->
        inv_dict(NonEmptyElements(items)[k].labels)]

WellFormedInput(in) ==
    /\ in.iterable
    /\ ~HasMalformed(in.items)
    /\ NonEmptyElements(in.items) # <<>>

\* C3: for an input with no malformed element and at least one non-empty
\* element, parse_input returns one summary per non-empty element, in the
\* order of the input, and emits exactly one warning per length-0 element,
\* each naming the index of its element.
C3_EmptyElementsSkipped ==
    (op = "parse_input" /\ WellFormedInput(arg)) =>
        /\ ret = Return(ExpectedSummaries(arg.items))
        /\ Len(warned) = Len(EmptyIndices(arg.items, 1))
        /\ \A k \in DOMAIN warned :
               warned[k].cites = {EmptyIndices(arg.items, 1)[k]}

\* [(), (g1, labels), ()]: a sequence of length 1 and two warnings
C3_Witness ==
    /\ op = "parse_input"
    /\ arg = Iterable(<<Tuple(0, EmptyMap), Tuple(2, DictXZ),
                        Tuple(0, EmptyMap)>>)
    /\ Returned(ret)
    /\ Len(ret.value) = 1
    /\ Len(warned) = 2

\* the position (from 0) of the first malformed element
FirstMalformed(items) ==
    CHOOSE i \in 0 .. (Len(items) - 1) :
        /\ Malformed(items[i + 1])
        /\ \A j \in 1 .. i : ~Malformed(items[j])

C5_EmptyResultRaises ==
    op = "parse_input" =>
        /\ (arg.iterable /\ ~HasMalformed(arg.items)
                /\ NonEmptyElements(arg.items) = <<>>)
           => ret = Raise("ValueError", Message("parsed input is empty", {}))
        /\ Returned(ret) => Len(ret.value) > 0

\* [(), ()]
C5_Witness ==
    /\ op = "parse_input"
    /\ arg = Iterable(<<Tuple(0, EmptyMap), Tuple(0, EmptyMap)>>)
    /\ ret.msg.text = "parsed input is empty"
    /\ Len(warned) = 2

---------------------------------------------------------------------------
(* The engine: fit, transform, fit_transform. *)

EngineElements ==
    {Tuple(0, EmptyMap), Tuple(1, EmptyMap),
     Tuple(2, DictXXY), GraphObject(DictXZ)}

EngineInputs ==
    {Iterable(items) : items \in SeqsUpTo(EngineElements, MaxBatch)}
        \cup {NotIterable}

\* entry (i, j) is the score of the i-th summary of Yp against the j-th
\* cached summary
kernel_matrix(Yp, Xp) ==
    [i \in DOMAIN Yp |->
        [j \in DOMAIN Xp |-> pairwise_operation(Yp[i], Xp[j])]]

\* the square matrix of a fit: the upper triangle is computed and mirrored
fit_matrix(Xp) ==
    [i \in DOMAIN Xp |->
        [j \in DOMAIN Xp |->
            IF i <= j THEN pairwise_operation(Xp[i], Xp[j])
            ELSE pairwise_operation(Xp[j], Xp[i])]]

Init ==
    /\ X = Unfitted /\ prevX = Unfitted /\ everFit = FALSE
    /\ op = "init"
    /\ arg = NotIterable
    /\ ret = NotCalled
    /\ warned = <<>>

fit(Xin) ==
    LET r == parse_input(Xin) IN
    /\ op' = "fit"
    /\ arg' = Xin
    /\ prevX' = X
    /\ warned' = r.warned
    /\ IF Returned(r.out)
       THEN /\ X' = Fitted(r.out.value)
            /\ everFit' = TRUE
            /\ ret' = Return(NoValue)
       ELSE /\ ret' = r.out
            /\ UNCHANGED <<X, everFit>>

transform_unguarded(Y) ==
    LET r == parse_input(Y) IN
    /\ op' = "transform"
    /\ arg' = Y
    /\ prevX' = X
    /\ warned' = r.warned
    /\ ret' = IF Returned(r.out)
              THEN Return(kernel_matrix(r.out.value, X.X))
              ELSE r.out
    /\ UNCHANGED <<X, everFit>>

transform(Y) ==
    /\ op' = "transform"
    /\ arg' = Y
    /\ prevX' = X
    /\ IF ~X.fitted
       THEN /\ ret' = Raise("NotFittedError", NoMessage)
            /\ warned' = <<>>
       ELSE LET r == parse_input(Y) IN
            /\ warned' = r.warned
            /\ ret' = IF Returned(r.out)
                      THEN Return(kernel_matrix(r.out.value, X.X))
                      ELSE r.out
    /\ UNCHANGED <<X, everFit>>

fit_transform(Xin) ==
    LET r == parse_input(Xin) IN
    /\ op' = "fit_transform"
    /\ arg' = Xin
    /\ prevX' = X
    /\ warned' = r.warned
    /\ IF Returned(r.out)
       THEN /\ X' = Fitted(r.out.value)
            /\ everFit' = TRUE
            /\ ret' = Return(fit_matrix(r.out.value))
       ELSE /\ ret' = r.out
            /\ UNCHANGED <<X, everFit>>

Next ==
    \E in \in EngineInputs :
        \/ fit(in)
        \/ transform(in)
        \/ fit_transform(in)

Spec == Init /\ [][Next]_vars

---------------------------------------------------------------------------
(* Claims about the engine, under Spec. *)

\* the input fails to parse: it is not iterable, holds a malformed element,
\* or yields no summary
FailsToParse(in) ==
    \/ ~in.iterable
    \/ HasMalformed(in.items)
    \/ NonEmptyElements(in.items) = <<>>

\* C6: transform on an engine on which no fit has ever succeeded raises
\* NotFittedError; a transform that returns a matrix is preceded by a
\* successful fit or fit_transform on the same engine.
C6_TransformNeedsFit ==
    op = "transform" =>
        /\ ~everFit => ret = Raise("NotFittedError", NoMessage)
        /\ Returned(ret) => everFit

\* transform of a well-formed input on an engine that no fit has fitted
C6_Witness ==
    /\ op = "transform"
    /\ ~everFit
    /\ ~FailsToParse(arg)
    /\ ret.exc = "NotFittedError"

\* C7: transform leaves the fitted state as it was, whatever its input; a
\* successful fit replaces the fitted state by the summaries of its input
\* alone.
C7_TransformKeepsFitReplaces ==
    /\ op = "transform" => X = prevX
    /\ (op = "fit" /\ Returned(ret)) =>
           /\ X.fitted
           /\ X.X = ExpectedSummaries(arg.items)

\* a successful fit on a fitted engine, after which no summary of the old
\* cache is left
C7_Witness ==
    /\ op = "fit"
    /\ Returned(ret)
    /\ prevX.fitted
    /\ \A i \in DOMAIN prevX.X : \A j \in DOMAIN X.X : prevX.X[i] # X.X[j]

\* the matrix has one row per element of rows, one column per cached
\* summary, and the common-label sum of the pair as entry
MatrixOver(K, rows, cols) ==
    /\ Len(K) = Len(rows)
    /\ \A i \in DOMAIN K :
           /\ Len(K[i]) = Len(cols)
           /\ \A j \in DOMAIN K[i] : K[i][j] = CommonLabelSum(rows[i], cols[j])

\* C8 as stated: the matrix transform(Y) returns has len(Y) rows.
C8_RowsAreLenY ==
    (op = "transform" /\ Returned(ret)) =>
        /\ Len(ret.value) = Len(arg.items)
        /\ \A i \in DOMAIN ret.value : Len(ret.value[i]) = Len(X.X)

\* C8, amended: the matrix transform(Y) returns has one row per element of Y
\* that is not of length 0 and one column per cached summary; entry (i, j) is
\* the score of the i-th summary of Y against the j-th cached summary.
C8_RowsAreSummariesOfY ==
    (op = "transform" /\ Returned(ret)) =>
        MatrixOver(ret.value, ExpectedSummaries(arg.items), prevX.X)

\* a Y with a length-0 element: fewer rows than elements
C8_Witness ==
    /\ op = "transform"
    /\ Returned(ret)
    /\ \E i \in DOMAIN arg.items : EmptyElement(arg.items[i])
    /\ Len(ret.value) < Len(arg.items)
    /\ Len(X.X) > Len(ret.value)

\* C10: when the input of fit (or fit_transform) fails to parse, at whatever
\* element, the call raises, returns no matrix and leaves the fitted state
\* as it was before the call.
C10_FailedFitChangesNothing ==
    (op \in {"fit", "fit_transform"} /\ FailsToParse(arg)) =>
        /\ ret.exc = "ValueError"
        /\ ret.value = NoValue
        /\ X = prevX

\* a fit on a fitted engine that fails at its second element, after the
\* first was converted
C10_Witness ==
    /\ op = "fit"
    /\ Len(arg.items) = 2
    /\ ~Malformed(arg.items[1]) /\ ~EmptyElement(arg.items[1])
    /\ Malformed(arg.items[2])
    /\ prevX.fitted
    /\ X = prevX
    /\ ~Returned(ret)

=============================================================================
